---- MODULE Spec2Model ----
(***************************************************************************)
(* A model of ReadTheirs (src/main.go): the command that mirrors a         *)
(* repository's README.md and the local assets it references.              *)
(*                                                                         *)
(* Texts (URLs, attribute values, paths, document text) are sequences of   *)
(* one-character strings, so that prefix tests, substring replacement,     *)
(* the inline-link regular expression and the lexical path functions are   *)
(* computed character by character, as the Go library computes them.       *)
(***************************************************************************)
EXTENDS Integers, Sequences, FiniteSets, TLC

\* ------------------------------------------------------------------------
\* Bounds of the model
\* ------------------------------------------------------------------------

\* The longest document (in nodes) the document GET may return.
MaxNodes == 3

\* The longest text (in pieces) the stripping specification starts from.
MaxPieces == 4

\* ------------------------------------------------------------------------
\* strings: HasPrefix, Contains, Replace
\* ------------------------------------------------------------------------

\* s has t at position i (1-based).
MatchAt(s, t, i) ==
    /\ i >= 1
    /\ i + Len(t) - 1 <= Len(s)
    /\ SubSeq(s, i, i + Len(t) - 1) = t

\* strings.HasPrefix(s, prefix)
HasPrefix(s, prefix) == MatchAt(s, prefix, 1)

\* strings.Contains(s, substr)
Contains(s, substr) == \E i \in 1..(Len(s) + 1) : MatchAt(s, substr, i)

\* The largest element of a non-empty set of positions.
Longest(S) == CHOOSE i \in S : \A j \in S : j <= i

\* The smallest element of a non-empty set of positions.
Leftmost(S) == CHOOSE i \in S : \A j \in S : i <= j

RECURSIVE ReplaceFrom(_, _, _, _)
\* strings.Replace(s, old, new, -1) from position i on: the text up to the
\* next occurrence of old is kept, the occurrence is replaced by new, and
\* the search goes on after it, so that the occurrences replaced are the
\* non-overlapping ones of one left-to-right pass (old # "").
ReplaceFrom(s, old, new, i) ==
    LET at == {j \in i..(Len(s) - Len(old) + 1) :
                  s[j] = old[1] /\ SubSeq(s, j, j + Len(old) - 1) = old}
    IN  IF at = {} THEN SubSeq(s, i, Len(s))
        ELSE SubSeq(s, i, Leftmost(at) - 1) \o new
             \o ReplaceFrom(s, old, new, Leftmost(at) + Len(old))

\* strings.Replace(s, old, new, -1)
Replace(s, old, new) == ReplaceFrom(s, old, new, 1)

RECURSIVE Concat(_)
\* The concatenation of a sequence of texts (fmt.Sprintf of %s verbs,
\* strings.Join with an empty separator).
Concat(ts) == IF ts = <<>> THEN <<>> ELSE Head(ts) \o Concat(Tail(ts))

RECURSIVE JoinWith(_, _)
\* strings.Join(ts, sep)
JoinWith(ts, sep) ==
    IF ts = <<>> THEN <<>>
    ELSE IF Len(ts) = 1 THEN ts[1]
    ELSE ts[1] \o sep \o JoinWith(Tail(ts), sep)

\* ------------------------------------------------------------------------
\* path/filepath (Unix): Clean, Dir, Base, Join
\* ------------------------------------------------------------------------

Slash == <<"/">>
Dot == <<".">>
DotDot == <<".", ".">>

RECURSIVE SegsFrom(_, _, _)
\* The path elements of s between its separators, from position i on.
SegsFrom(s, i, cur) ==
    IF i > Len(s) THEN <<cur>>
    ELSE IF s[i] = "/" THEN <<cur>> \o SegsFrom(s, i + 1, <<>>)
    ELSE SegsFrom(s, i + 1, Append(cur, s[i]))

Segments(s) == SegsFrom(s, 1, <<>>)

RECURSIVE CleanSegs(_, _, _, _)
\* filepath.Clean's pass over the path elements: empty and "." elements
\* are dropped, ".." removes the element before it when there is one that
\* is not itself "..", is dropped at the root, and is kept otherwise.
CleanSegs(segs, rooted, out, i) ==
    IF i > Len(segs) THEN out
    ELSE LET e == segs[i] IN
         IF e = <<>> \/ e = Dot THEN CleanSegs(segs, rooted, out, i + 1)
         ELSE IF e = DotDot
              THEN IF out # <<>> /\ out[Len(out)] # DotDot
                   THEN CleanSegs(segs, rooted, SubSeq(out, 1, Len(out) - 1), i + 1)
                   ELSE IF rooted
                        THEN CleanSegs(segs, rooted, out, i + 1)
                        ELSE CleanSegs(segs, rooted, Append(out, e), i + 1)
              ELSE CleanSegs(segs, rooted, Append(out, e), i + 1)

\* filepath.Clean(path)
Clean(path) ==
    IF path = <<>> THEN Dot
    ELSE LET rooted == path[1] = "/"
             out == CleanSegs(Segments(path), rooted, <<>>, 1)
         IN  IF rooted THEN Slash \o JoinWith(out, Slash)
             ELSE IF out = <<>> THEN Dot
             ELSE JoinWith(out, Slash)

\* The position of the last separator of s, 0 when it has none.
LastSlash(s) ==
    LET at == {i \in 1..Len(s) : s[i] = "/"}
    IN  IF at = {} THEN 0 ELSE Longest(at)

\* filepath.Dir(path)
Dir(path) == Clean(SubSeq(path, 1, LastSlash(path)))

RECURSIVE StripTrailingSlashes(_)
StripTrailingSlashes(s) ==
    IF s # <<>> /\ s[Len(s)] = "/"
    THEN StripTrailingSlashes(SubSeq(s, 1, Len(s) - 1))
    ELSE s

\* filepath.Base(path)
Base(path) ==
    IF path = <<>> THEN Dot
    ELSE LET t == StripTrailingSlashes(path)
         IN  IF t = <<>> THEN Slash
             ELSE SubSeq(t, LastSlash(t) + 1, Len(t))

RECURSIVE DropEmptyHead(_)
DropEmptyHead(elem) ==
    IF elem # <<>> /\ elem[1] = <<>> THEN DropEmptyHead(Tail(elem)) ELSE elem

\* filepath.Join(elem...)
Join(elem) ==
    LET rest == DropEmptyHead(elem)
    IN  IF rest = <<>> THEN <<>> ELSE Clean(JoinWith(rest, Slash))

\* ------------------------------------------------------------------------
\* The texts of the program
\* ------------------------------------------------------------------------

\* "github.com", the host prefix main tests for.
GithubHost == <<"g", "i", "t", "h", "u", "b", ".", "c", "o", "m">>

\* "master", the branch main starts from.
Master == <<"m", "a", "s", "t", "e", "r">>

\* "README.md" and "/raw/", the parts of the raw-content URL.
ReadmeName == <<"R", "E", "A", "D", "M", "E", ".", "m", "d">>
RawSegment == <<"/", "r", "a", "w", "/">>

\* "?raw=true", the marker getReadme strips from attribute values.
RawMarker == <<"?", "r", "a", "w", "=", "t", "r", "u", "e">>

\* "?raw=true)", the marker stripped from the text, and ")", what replaces it.
RawMarkerParen == <<"?", "r", "a", "w", "=", "t", "r", "u", "e", ")">>
Paren == <<")">>

\* "http", the prefix downloadAssets tests attribute values for.
Http == <<"h", "t", "t", "p">>

\* "expand.sh", the script main writes last.
ScriptName == <<"e", "x", "p", "a", "n", "d", ".", "s", "h">>

\* The characters the bracket expression [^https?://] excludes.
ExcludedClass == {"h", "t", "p", "s", "?", ":", "/"}

\* The alternatives of (png|jpg|gif|svg).
Exts == {<<"p", "n", "g">>, <<"j", "p", "g">>, <<"g", "i", "f">>, <<"s", "v", "g">>}

NL == "\n"

\* http.StatusOK
StatusOK == 200

\* ------------------------------------------------------------------------
\* The parsed document
\* ------------------------------------------------------------------------
\* A document is a sequence of nodes in document order.  An element node
\* carries a tag and its src and href attributes, each absent (<<>>) or
\* present (<<value>>); a text node carries one line of text made of inline
\* links [label](path) separated by spaces.

Element(tag, src, href) ==
    [kind |-> "elem", tag |-> tag, src |-> src, href |-> href, links |-> <<>>]

TextLine(links) ==
    [kind |-> "text", tag |-> <<>>, src |-> <<>>, href |-> <<>>, links |-> links]

InlineLink(label, path) == [label |-> label, path |-> path]

ImgTag == <<"i", "m", "g">>
LinkTag == <<"l", "i", "n", "k">>
ScriptTag == <<"s", "c", "r", "i", "p", "t">>

\* The selector "img[src], link[href], script[src]".
Selected(n) ==
    /\ n.kind = "elem"
    /\ \/ n.tag = ImgTag /\ n.src # <<>>
       \/ n.tag = LinkTag /\ n.href # <<>>
       \/ n.tag = ScriptTag /\ n.src # <<>>

\* The callback of getReadme on an attribute: a value that contains the
\* marker is set to the value with every occurrence of it removed.
StripAttr(attr) ==
    IF attr # <<>> /\ Contains(attr[1], RawMarker)
    THEN <<Replace(attr[1], RawMarker, <<>>)>>
    ELSE attr

\* getReadme's pass over the selected elements, in place.
Canonicalize(doc) ==
    [i \in 1..Len(doc) |->
        IF Selected(doc[i])
        THEN [doc[i] EXCEPT !.src = StripAttr(@), !.href = StripAttr(@)]
        ELSE doc[i]]

\* The text of one inline link.
LinkText(l) == <<"[">> \o l.label \o <<"]", "(">> \o l.path \o <<")">>

AttrText(name, attr) ==
    IF attr = <<>> THEN <<>>
    ELSE <<" ">> \o name \o <<"=", "\"">> \o attr[1] \o <<"\"">>

\* The text of one node as the document renders it.
NodeText(n) ==
    IF n.kind = "elem"
    THEN <<"<">> \o n.tag
         \o AttrText(<<"s", "r", "c">>, n.src)
         \o AttrText(<<"h", "r", "e", "f">>, n.href) \o <<"/", ">">>
    ELSE JoinWith([i \in 1..Len(n.links) |-> LinkText(n.links[i])], <<" ">>)

\* readme.Html(): the document rendered back to text, a node to a line.
Html(doc) == JoinWith([i \in 1..Len(doc) |-> NodeText(doc[i])], <<NL>>)

\* The raw-text stripping step: strings.Replace(content, "?raw=true)", ")", -1).
StripRaw(content) == Replace(content, RawMarkerParen, Paren)

\* ------------------------------------------------------------------------
\* Extraction of the asset references
\* ------------------------------------------------------------------------

\* The prefix test of the extraction callback: strings.HasPrefix(v, "http").
IsRemote(v) == HasPrefix(v, Http)

\* What the extraction callback appends for one attribute.
AttrRefs(attr) ==
    IF attr # <<>> /\ ~IsRemote(attr[1]) THEN <<attr[1]>> ELSE <<>>

RECURSIVE StructuralFrom(_, _)
\* The references of the selected elements from node i on: for each
\* element its src, then its href.
StructuralFrom(doc, i) ==
    IF i > Len(doc) THEN <<>>
    ELSE (IF Selected(doc[i])
          THEN AttrRefs(doc[i].src) \o AttrRefs(doc[i].href)
          ELSE <<>>) \o StructuralFrom(doc, i + 1)

StructuralRefs(doc) == StructuralFrom(doc, 1)

\* No newline in s[a..b]: what .* may run over.
NoNewline(s, a, b) == \A q \in a..b : s[q] # NL

\* Group 2, [^https?://].*\.(png|jpg|gif|svg), starting at k and followed
\* by \): the positions m of the dot before the extension it may end with.
Group2Dots(s, k) ==
    {m \in (k + 1)..(Len(s) - 4) :
        /\ NoNewline(s, k + 1, m - 1)
        /\ s[m] = "."
        /\ SubSeq(s, m + 1, m + 3) \in Exts
        /\ s[m + 4] = ")"}

\* Group 1, \[.*\]\(, starting at i: the positions j of a "](" that ends it
\* with the rest of the expression matching after it.
Group1Ends(s, i) ==
    {j \in (i + 1)..(Len(s) - 2) :
        /\ NoNewline(s, i + 1, j - 1)
        /\ s[j] = "]"
        /\ s[j + 1] = "("
        /\ s[j + 2] \notin ExcludedClass
        /\ Group2Dots(s, j + 2) # {}}

RECURSIVE FindAllFrom(_, _)
\* regex.FindAllStringSubmatch(content, -1), group 2 of each match: the
\* leftmost match from position `from`, both .* greedy (as long as they
\* can be), then the search goes on after the match.
FindAllFrom(s, from) ==
    LET starts == {i \in from..Len(s) : s[i] = "[" /\ Group1Ends(s, i) # {}}
    IN  IF starts = {} THEN <<>>
        ELSE LET i == Leftmost(starts)
                 j == Longest(Group1Ends(s, i))
                 m == Longest(Group2Dots(s, j + 2))
             IN  <<SubSeq(s, j + 2, m + 3)>> \o FindAllFrom(s, m + 5)

\* The second pass: the rendered text, stripped, scanned for inline links;
\* an empty group 2 is skipped.
InlineRefs(doc) ==
    SelectSeq(FindAllFrom(StripRaw(Html(doc)), 1), LAMBDA p : p # <<>>)

\* An asset list with the inline-syntax references first.
InlineFirst(doc) == InlineRefs(doc) \o StructuralRefs(doc)

\* The asset list of downloadAssets before its loop: the references of the
\* first pass, then those of the second.
Assets(doc) == StructuralRefs(doc) \o InlineRefs(doc)

\* ------------------------------------------------------------------------
\* net/url: Parse and String
\* ------------------------------------------------------------------------

SchemeSep == <<":", "/", "/">>

\* url.Parse(link): scheme, host and path of an absolute link; a link
\* without "://" has no host and is all path.
ParseURL(link) ==
    LET seps == {i \in 1..Len(link) : MatchAt(link, SchemeSep, i)}
    IN  IF seps = {}
        THEN [scheme |-> <<>>, host |-> <<>>, path |-> link]
        ELSE LET i == Leftmost(seps)
                 rest == SubSeq(link, i + 3, Len(link))
                 slashes == {j \in 1..Len(rest) : rest[j] = "/"}
                 h == IF slashes = {} THEN Len(rest) ELSE Leftmost(slashes) - 1
             IN  [scheme |-> SubSeq(link, 1, i - 1),
                  host |-> SubSeq(rest, 1, h),
                  path |-> SubSeq(rest, h + 1, Len(rest))]

\* u.String()
URLString(url) ==
    IF url.scheme = <<>> THEN url.path
    ELSE url.scheme \o SchemeSep \o url.host \o url.path

\* fmt.Sprintf("%s/raw/%s/%s", u.String(), b, name): the raw-content URL
\* of a file of the repository at revision b.
RawURL(url, b, name) == Concat(<<URLString(url), RawSegment, b, Slash, name>>)

\* filepath.Join(".", filepath.Base(u.Path)): the destination directory.
DestDir(url) == Join(<<Dot, Base(url.path)>>)

\* ------------------------------------------------------------------------
\* Inputs
\* ------------------------------------------------------------------------

\* The most positional arguments a command line carries.
MaxArgs == 3

\* os.Args[0]
ProgName == <<"r", "t">>

\* Repository links: the hosting service, a host that begins with its name,
\* another service, and a link without a scheme.
RepoLinks ==
    { <<"h", "t", "t", "p", "s", ":", "/", "/", "g", "i", "t", "h", "u", "b",
        ".", "c", "o", "m", "/", "o", "/", "r">>,
      <<"h", "t", "t", "p", "s", ":", "/", "/", "g", "i", "t", "h", "u", "b",
        ".", "c", "o", "m", ".", "e", "x", "a", "m", "p", "l", "e", ".", "o",
        "r", "g", "/", "o", "/", "r">>,
      <<"h", "t", "t", "p", "s", ":", "/", "/", "g", "i", "t", "l", "a", "b",
        ".", "c", "o", "m", "/", "o", "/", "r">>,
      <<"g", "i", "t", "h", "u", "b", ".", "c", "o", "m", "/", "o", "/", "r">> }

\* The revision given as second argument ("dev"); further arguments repeat it.
RevisionArg == <<"d", "e", "v">>

\* The command lines: the program name and 0..MaxArgs positional arguments.
CommandLines ==
    { <<ProgName>> \o [i \in 1..n |-> IF i = 1 THEN link ELSE RevisionArg] :
        n \in 0..MaxArgs, link \in RepoLinks }

\* Attribute values and inline links of the documents.
LocalRaw == <<"i", "m", "g", "/", "a", ".", "p", "n", "g",
              "?", "r", "a", "w", "=", "t", "r", "u", "e">>
RemoteCss == <<"h", "t", "t", "p", "s", ":", "/", "/", "x", "/", "y", ".", "c", "s", "s">>
Httpdocs == <<"h", "t", "t", "p", "d", "o", "c", "s", "/", "a", ".", "p", "n", "g">>
UpXRaw == <<".", ".", "/", "x", ".", "p", "n", "g",
            "?", "r", "a", "w", "=", "t", "r", "u", "e">>
PicsB == <<"p", "i", "c", "s", "/", "b", ".", "j", "p", "g">>
PlainA == <<"a", ".", "p", "n", "g">>

\* The nodes a document is made of.
NodeChoices ==
    { Element(ImgTag, <<LocalRaw>>, <<>>),
      Element(LinkTag, <<>>, <<RemoteCss>>),
      Element(ScriptTag, <<Httpdocs>>, <<>>),
      TextLine(<<InlineLink(<<"x">>, PicsB)>>),
      TextLine(<<InlineLink(<<"x">>, PlainA), InlineLink(<<"y">>, UpXRaw)>>) }

\* The documents the document GET may return.
Docs == UNION {[1..k -> NodeChoices] : k \in 0..MaxNodes}

\* What the document GET and the persisting of the document may do:
\* a transport error, a status, and on status 200 an error reading the
\* body, creating the file or writing it, or the parsed body.
DocStatuses == {StatusOK, 201, 204, 404, 500}

DocResponses ==
    {[kind |-> "transport", code |-> 0, persist |-> "none", body |-> <<>>]}
    \cup {[kind |-> "status", code |-> c, persist |-> "none", body |-> <<>>] :
            c \in DocStatuses \ {StatusOK}}
    \cup {[kind |-> "status", code |-> StatusOK, persist |-> e, body |-> <<>>] :
            e \in {"read", "create", "write"}}
    \cup {[kind |-> "status", code |-> StatusOK, persist |-> "ok", body |-> d] :
            d \in Docs}

\* What one iteration of the retrieval loop may meet.
AssetOutcomes == {"transport", "status", "create", "copy", "ok"}

\* What the writing of the script may meet.
ScriptOutcomes == {"create", "chmod", "ok"}

\* ------------------------------------------------------------------------
\* State
\* ------------------------------------------------------------------------

VARIABLES
    osArgs,      \* os.Args
    pc,          \* where the run is
    exit,        \* the exit of the process: [code, why], code -1 while running
    branchName,  \* main's branchName
    u,           \* main's u, the parsed link
    docResp,     \* what the document GET met: [kind, code, persist]
    readme,      \* the document getReadme returns
    assets,      \* downloadAssets' asset list
    idx,         \* the position of the retrieval loop in it
    outcomes,    \* what each finished iteration met
    filePaths,   \* the filePath of each finished iteration, <<>> if it made none
    requests,    \* the GETs issued, in order: [url, asset], asset 0 the document
    files,       \* the files written: path -> [from, complete]
    dirs,        \* the directories created
    openBodies,  \* response bodies of downloadAssets not yet closed
    openFiles,   \* output files of downloadAssets not yet closed
    content,     \* SpecStrip: the text the stripping step is applied to
    passes       \* SpecStrip: the text before and after each application

vars == <<osArgs, pc, exit, branchName, u, docResp, readme, assets, idx,
          outcomes, filePaths, requests, files, dirs, openBodies, openFiles, content, passes>>

NoURL == [scheme |-> <<>>, host |-> <<>>, path |-> <<>>]
NoResp == [kind |-> "none", code |-> 0, persist |-> "none"]
Running == [code |-> -1, why |-> "running"]

\* os.Exit(1) after a printed diagnostic.
ExitWith(why) == [code |-> 1, why |-> why]

\* panic(err): the Go runtime ends the process with status 2.
Panic(why) == [code |-> 2, why |-> why]

\* A file's content: the download it came from (0 the document, -1 the
\* script) and whether all of it was written.
Written(from, complete) == [from |-> from, complete |-> complete]

\* files with path p created or truncated and written.
WriteFile(fs, p, c) == [q \in DOMAIN fs \cup {p} |-> IF q = p THEN c ELSE fs[q]]

Init ==
    /\ osArgs \in CommandLines
    /\ pc = "main"
    /\ exit = Running
    /\ branchName = <<>>
    /\ u = NoURL
    /\ docResp = NoResp
    /\ readme = <<>>
    /\ assets = <<>>
    /\ idx = 0
    /\ outcomes = <<>>
    /\ filePaths = <<>>
    /\ requests = <<>>
    /\ files = <<>>
    /\ dirs = {}
    /\ openBodies = 0
    /\ openFiles = 0
    /\ content = <<>>
    /\ passes = <<>>

\* ------------------------------------------------------------------------
\* main
\* ------------------------------------------------------------------------

\* main, the argument check: any number of arguments other than one
\* repository link prints the usage and exits; the branch is "master"
\* unless a third element of os.Args names one.
ParseArgs ==
    /\ pc = "main"
    /\ IF Len(osArgs) # 2
       THEN /\ pc' = "exit"
            /\ exit' = ExitWith("usage")
            /\ UNCHANGED branchName
       ELSE /\ pc' = "validate"
            /\ branchName' = IF Len(osArgs) = 3 THEN osArgs[3] ELSE Master
            /\ UNCHANGED exit
    /\ UNCHANGED <<osArgs, u, docResp, readme, assets, idx, outcomes, filePaths, requests,
                   files, dirs, openBodies, openFiles, content, passes>>

\* The host test of main: strings.HasPrefix(u.Host, "github.com").
HostAccepted(host) == HasPrefix(host, GithubHost)

\* main, the link: it is parsed, a host that fails the test ends the run,
\* otherwise the destination directory is made.
ValidateHost ==
    /\ pc = "validate"
    /\ LET parsed == ParseURL(osArgs[2])
       IN  /\ u' = parsed
           /\ IF ~HostAccepted(parsed.host)
              THEN /\ pc' = "exit"
                   /\ exit' = ExitWith("host")
                   /\ UNCHANGED dirs
              ELSE /\ pc' = "getReadme"
                   /\ dirs' = dirs \cup {DestDir(parsed)}
                   /\ UNCHANGED exit
    /\ UNCHANGED <<osArgs, branchName, docResp, readme, assets, idx, outcomes, filePaths,
                   requests, files, openBodies, openFiles, content, passes>>

\* ------------------------------------------------------------------------
\* getReadme
\* ------------------------------------------------------------------------

\* A status test that lets every 2xx status through.
StatusAcceptedAny2xx(code) == code \in 200..299

\* The status test of getReadme and of the retrieval loop:
\* resp.StatusCode != http.StatusOK is the failure.
StatusAccepted(code) == code = StatusOK

\* The path the document is written to.
ReadmePath(url) == Join(<<Dot, Base(url.path), ReadmeName>>)

\* getReadme and main's test of its result: one GET of the document; a
\* transport error, a status that fails the test, an error reading the
\* body, creating the file or writing it returns the error, and main
\* panics; otherwise the canonicalized text is written and the document,
\* its attributes stripped of the marker, is returned.
GetReadme ==
    /\ pc = "getReadme"
    /\ \E resp \in DocResponses :
        /\ docResp' = [kind |-> resp.kind, code |-> resp.code, persist |-> resp.persist]
        /\ requests' = Append(requests,
                              [url |-> RawURL(u, branchName, ReadmeName), asset |-> 0])
        /\ IF resp.kind = "transport" \/ ~StatusAccepted(resp.code)
              \/ resp.persist \in {"read", "create"}
           THEN /\ pc' = "exit"
                /\ exit' = Panic("readme")
                /\ UNCHANGED <<readme, files>>
           ELSE IF resp.persist = "write"
           THEN /\ pc' = "exit"
                /\ exit' = Panic("readme")
                /\ files' = WriteFile(files, ReadmePath(u), Written(0, FALSE))
                /\ UNCHANGED readme
           ELSE /\ pc' = "downloadAssets"
                /\ readme' = Canonicalize(resp.body)
                /\ files' = WriteFile(files, ReadmePath(u), Written(0, TRUE))
                /\ UNCHANGED exit
    /\ UNCHANGED <<osArgs, branchName, u, assets, idx, outcomes, filePaths, dirs,
                   openBodies, openFiles, content, passes>>

\* ------------------------------------------------------------------------
\* downloadAssets
\* ------------------------------------------------------------------------

\* downloadAssets up to its loop: the asset list is extracted; an empty
\* list returns nil at once; otherwise the destination directory is made,
\* and an error making it is returned to main, which panics.
ExtractAssets ==
    /\ pc = "downloadAssets"
    /\ assets' = Assets(readme)
    /\ IF Assets(readme) = <<>>
       THEN /\ pc' = "script"
            /\ UNCHANGED <<exit, dirs, idx>>
       ELSE \E made \in BOOLEAN :
            IF made
            THEN /\ pc' = "loop"
                 /\ idx' = 1
                 /\ dirs' = dirs \cup {DestDir(u)}
                 /\ UNCHANGED exit
            ELSE /\ pc' = "exit"
                 /\ exit' = Panic("mkdir")
                 /\ UNCHANGED <<dirs, idx>>
    /\ UNCHANGED <<osArgs, branchName, u, docResp, readme, outcomes, filePaths, requests,
                   files, openBodies, openFiles, content, passes>>

\* A loop that gives up on a status that fails the test.
OnAssetErrorReturn(kind) == IF kind = "status" THEN "return" ELSE "continue"

\* What the loop does after an iteration that failed in the given way:
\* every failure branch of the loop body ends in `continue`.
OnAssetError(kind) == "continue"

\* filepath.Join(dir, filepath.Dir(asset)): the directory made for an asset.
AssetDir(url, asset) == Join(<<DestDir(url), Dir(asset)>>)

\* filepath.Join(dir, filepath.Dir(asset), filepath.Base(asset)): its file.
AssetPath(url, asset) == Join(<<DestDir(url), Dir(asset), Base(asset)>>)

\* One iteration of the retrieval loop.  The GET is issued; a transport
\* error ends the iteration.  Otherwise the closing of the body is deferred
\* to the return of downloadAssets; a status that fails the test ends the
\* iteration.  Otherwise the asset's directory is made and its file created
\* (truncated when it exists); a creation error ends the iteration.
\* Otherwise the closing of the file is deferred likewise and the body is
\* copied; a copy error leaves what was copied.
DownloadAsset ==
    /\ pc = "loop"
    /\ idx <= Len(assets)
    /\ \E met \in AssetOutcomes :
        LET asset == assets[idx]
            path == AssetPath(u, asset)
            after == IF met = "ok" THEN "continue" ELSE OnAssetError(met)
        IN  /\ requests' = Append(requests,
                                  [url |-> RawURL(u, branchName, asset), asset |-> idx])
            /\ openBodies' = IF met = "transport" THEN openBodies ELSE openBodies + 1
            /\ dirs' = IF met \in {"transport", "status"} THEN dirs
                       ELSE dirs \cup {AssetDir(u, asset)}
            /\ openFiles' = IF met \in {"copy", "ok"} THEN openFiles + 1 ELSE openFiles
            /\ files' = IF met \in {"copy", "ok"}
                        THEN WriteFile(files, path, Written(idx, met = "ok"))
                        ELSE files
            /\ outcomes' = Append(outcomes, met)
            /\ filePaths' = Append(filePaths,
                                   IF met \in {"transport", "status"} THEN <<>> ELSE path)
            /\ IF after = "continue"
               THEN /\ idx' = idx + 1
                    /\ UNCHANGED <<pc, exit>>
               ELSE /\ pc' = "exit"
                    /\ exit' = Panic("asset")
                    /\ UNCHANGED idx
    /\ UNCHANGED <<osArgs, branchName, u, docResp, readme, assets, content, passes>>

\* The end of the loop: downloadAssets returns nil, and the deferred
\* closings of the bodies and files run.
FinishAssets ==
    /\ pc = "loop"
    /\ idx > Len(assets)
    /\ pc' = "script"
    /\ openBodies' = 0
    /\ openFiles' = 0
    /\ UNCHANGED <<osArgs, exit, branchName, u, docResp, readme, assets, idx,
                   outcomes, filePaths, requests, files, dirs, content, passes>>

\* main, the script: the working directory becomes the destination
\* directory, expand.sh is created there, written and made executable; an
\* error of any of these panics.
WriteScript ==
    /\ pc = "script"
    /\ \E met \in ScriptOutcomes :
        /\ pc' = "exit"
        /\ exit' = IF met = "ok" THEN [code |-> 0, why |-> "done"] ELSE Panic("script")
        /\ files' = IF met = "create" THEN files
                    ELSE WriteFile(files, Join(<<DestDir(u), ScriptName>>),
                                   Written(-1, TRUE))
    /\ UNCHANGED <<osArgs, branchName, u, docResp, readme, assets, idx, outcomes, filePaths,
                   requests, dirs, openBodies, openFiles, content, passes>>

Next ==
    \/ ParseArgs
    \/ ValidateHost
    \/ GetReadme
    \/ ExtractAssets
    \/ DownloadAsset
    \/ FinishAssets
    \/ WriteScript

Spec == Init /\ [][Next]_vars

\* ------------------------------------------------------------------------
\* The stripping step applied again and again to one text
\* ------------------------------------------------------------------------

\* How many times the step is applied.
MaxPasses == 2

\* The pieces the texts are made of: the marker without and with its
\* parenthesis, a parenthesis, and another character.
Pieces == {RawMarker, RawMarkerParen, Paren, <<"x">>}

StripTexts == {Concat(ps) : ps \in UNION {[1..k -> Pieces] : k \in 0..MaxPieces}}

InitStrip ==
    /\ osArgs = <<ProgName>>
    /\ pc = "strip"
    /\ exit = Running
    /\ branchName = <<>>
    /\ u = NoURL
    /\ docResp = NoResp
    /\ readme = <<>>
    /\ assets = <<>>
    /\ idx = 0
    /\ outcomes = <<>>
    /\ filePaths = <<>>
    /\ requests = <<>>
    /\ files = <<>>
    /\ dirs = {}
    /\ openBodies = 0
    /\ openFiles = 0
    /\ content \in StripTexts
    /\ passes = <<content>>

\* content = strings.Replace(content, "?raw=true)", ")", -1)
ApplyStrip ==
    /\ pc = "strip"
    /\ Len(passes) <= MaxPasses
    /\ content' = StripRaw(content)
    /\ passes' = Append(passes, StripRaw(content))
    /\ UNCHANGED <<osArgs, pc, exit, branchName, u, docResp, readme, assets, idx,
                   outcomes, filePaths, requests, files, dirs, openBodies, openFiles>>

NextStrip == ApplyStrip

SpecStrip == InitStrip /\ [][NextStrip]_vars

\* ------------------------------------------------------------------------
\* Properties
\* ------------------------------------------------------------------------

\* The elements of a sequence.
Range(q) == {q[i] : i \in 1..Len(q)}

\* downloadAssets has built its asset list.
Extracted == pc \in {"loop", "script"} \/ exit.why \in {"mkdir", "asset", "script", "done"}

\* The retrieval loop has run to the end of a non-empty list and the
\* function has returned.
LoopOver == pc = "script" \/ exit.why \in {"script", "done"}

\* The asset GETs issued so far, in order.
AssetRequests == SelectSeq(requests, LAMBDA r : r.asset > 0)

\* p lies inside the destination tree d.
Inside(p, d) == HasPrefix(p, d \o Slash)

\* v begins with an HTTP scheme token.
HasHttpScheme(v) ==
    \/ HasPrefix(v, Http \o SchemeSep)
    \/ HasPrefix(v, Http \o <<"s">> \o SchemeSep)

\* p ends in .png, .jpg, .gif or .svg.
EndsInImageExt(p) ==
    /\ Len(p) >= 4
    /\ p[Len(p) - 3] = "."
    /\ SubSeq(p, Len(p) - 2, Len(p)) \in Exts

\* The path of an inline link as it stands in the stripped rendered text.
StrippedPath(l) ==
    LET t == StripRaw(l.path \o Paren) IN SubSeq(t, 1, Len(t) - 1)

\* C1: for every link whose host is not exactly github.com, also a host
\* that only begins with that name, the run goes no further than the host
\* check, exits non-zero, and no GET is ever issued.
HostValidation ==
    (Len(osArgs) >= 2 /\ ParseURL(osArgs[2]).host # GithubHost)
        => /\ requests = <<>>
           /\ pc \in {"main", "validate", "exit"}
           /\ (pc = "exit" => exit.code # 0)

\* C2: one or two positional arguments let the run proceed, with "master"
\* and with the given revision in every URL; only zero or more than two
\* arguments end in the usage exit.
ArgumentCount ==
    /\ (pc # "main" /\ Len(osArgs) \in {2, 3}) => exit.why # "usage"
    /\ (pc # "main" /\ Len(osArgs) \notin {2, 3}) => exit = ExitWith("usage")
    /\ \A k \in 1..Len(requests) :
        LET r == requests[k]
            name == IF r.asset = 0 THEN ReadmeName ELSE assets[r.asset]
            rev == IF Len(osArgs) = 3 THEN osArgs[3] ELSE Master
        IN  r.url = RawURL(ParseURL(osArgs[2]), rev, name)

\* Reference i got its GET.
Fetched(i) ==
    \E k \in 1..Len(requests) :
        requests[k] = [url |-> RawURL(u, branchName, assets[i]), asset |-> i]

\* The download of reference i is on disk: its file exists, written by it
\* or by a later reference, and by it when no later iteration made the
\* same file.
OnDisk(i) ==
    /\ filePaths[i] \in DOMAIN files
    /\ files[filePaths[i]].from >= i
    /\ (\A j \in (i + 1)..Len(filePaths) : filePaths[j] # filePaths[i])
        => files[filePaths[i]] = Written(i, TRUE)

\* C3: whatever iterations fail (transport error, status, file creation,
\* copy), the loop goes on to the end of the list without ending the run:
\* every reference gets its GET, every download that succeeded is on disk,
\* and downloadAssets returns nil, so that main goes on to the script.
FailureIsolation ==
    /\ exit.why # "asset"
    /\ (0 < Len(outcomes) /\ Len(outcomes) < Len(assets))
        => (pc = "loop" /\ exit = Running /\ idx = Len(outcomes) + 1)
    /\ (0 < Len(outcomes) /\ Len(outcomes) = Len(assets))
        => (/\ pc \in {"loop", "script", "exit"}
            /\ exit.why \in {"running", "script", "done"}
            /\ \A i \in 1..Len(assets) :
                 Fetched(i) /\ (outcomes[i] = "ok" => OnDisk(i)))

\* C3, its case: of three references the second met a status other than
\* 200, the first and the third are on disk, and the run ended with 0.
FailureIsolationWitness ==
    /\ exit.code = 0
    /\ outcomes = <<"ok", "status", "ok">>
    /\ files[filePaths[1]].complete
    /\ files[filePaths[3]] = Written(3, TRUE)

\* C4 as stated: a transport error or a status outside 2xx ends the run
\* with one GET issued, no document written and no asset GET; any 2xx
\* status lets the run go on past the fetch.
DocFetchFatalUnless2xx ==
    docResp.kind # "none" =>
        IF docResp.kind = "transport" \/ docResp.code \notin 200..299
        THEN /\ exit = Panic("readme")
             /\ Len(requests) = 1
             /\ ReadmePath(u) \notin DOMAIN files
        ELSE docResp.persist \in {"ok", "none"} => exit.why # "readme"

\* C4, amended: a transport error or any status other than 200 (201 and
\* 204 too) ends the run with exactly the one document GET issued, no
\* document written and no asset GET; status 200 with the document read
\* and persisted lets the run go on to the assets.
DocFetchFatal ==
    docResp.kind # "none" =>
        IF docResp.kind = "transport" \/ docResp.code # StatusOK
        THEN /\ pc = "exit"
             /\ exit = Panic("readme")
             /\ requests = <<[url |-> RawURL(u, branchName, ReadmeName), asset |-> 0]>>
             /\ ReadmePath(u) \notin DOMAIN files
        ELSE docResp.persist = "ok"
                => /\ exit.why # "readme"
                   /\ pc # "getReadme"
                   /\ files[ReadmePath(u)] = Written(0, TRUE)

\* C4, its case: the document GET returned 201 and the run was ended.
DocFetchFatalWitness ==
    /\ docResp.kind = "status"
    /\ docResp.code = 201
    /\ exit = Panic("readme")
    /\ Len(requests) = 1

\* C5: an attribute value of a selected element (src of img and script,
\* href of link) is in the asset list exactly when it does not begin with
\* http:// or https://.
Classification ==
    Extracted =>
        \A i \in 1..Len(readme) :
            Selected(readme[i]) =>
                LET attr == IF readme[i].tag = LinkTag THEN readme[i].href
                            ELSE readme[i].src
                IN  (attr[1] \in Range(assets)) <=> ~HasHttpScheme(attr[1])

\* C6: every inline link whose path does not begin with an HTTP scheme
\* token and ends in an image extension has its path in the asset list,
\* whatever its first character and however many links share its line.
InlineExtraction ==
    Extracted =>
        \A i \in 1..Len(readme) :
            \A k \in 1..Len(readme[i].links) :
                LET path == StrippedPath(readme[i].links[k])
                IN  (~HasHttpScheme(path) /\ EndsInImageExt(path))
                        => path \in Range(assets)

\* C7: applying the stripping step twice gives what applying it once gives.
StripIdempotent == Len(passes) >= 3 => passes[3] = passes[2]

\* C8: at every point of the loop at most one response body and at most
\* one output file are open.
ScopedResources == pc = "loop" => (openBodies <= 1 /\ openFiles <= 1)

\* C9, the part kept: the asset list the loop starts from is the structural
\* references followed by the inline ones; the asset GETs are one per processed reference, in
\* list order, each for its reference's URL, and none is issued for a
\* reference before the one before it has been dealt with.
SequentialInOrder ==
    /\ (Extracted /\ outcomes = <<>>)
        => assets = StructuralRefs(readme) \o InlineRefs(readme)
    /\ Len(AssetRequests) = Len(outcomes)
    /\ Len(outcomes) <= Len(assets)
    /\ LoopOver /\ assets # <<>> => Len(outcomes) = Len(assets)
    /\ \A k \in 1..Len(AssetRequests) :
        AssetRequests[k] = [url |-> RawURL(u, branchName, assets[k]), asset |-> k]

\* The last of the iterations with an outcome in `kinds` whose file is p.
LastOf(p, kinds) ==
    Longest({j \in 1..Len(outcomes) : outcomes[j] \in kinds /\ filePaths[j] = p})

\* C9 as stated: downloads are sequential and in extraction order, and
\* after the loop a path named by several references holds the body of
\* the last download of it that succeeded.
LaterSuccessfulWins ==
    /\ SequentialInOrder
    /\ LoopOver =>
        \A i \in 1..Len(outcomes) :
            outcomes[i] = "ok" =>
                files[filePaths[i]] = Written(LastOf(filePaths[i], {"ok"}), TRUE)

\* C9, amended: downloads are sequential and in extraction order, and
\* after the loop a path holds what the last download of it that reached
\* the copy wrote: its whole body when it succeeded, a truncated one when
\* its copy failed, also after an earlier download of the path succeeded.
LaterWriteWins ==
    /\ SequentialInOrder
    /\ LoopOver =>
        \A i \in 1..Len(outcomes) :
            outcomes[i] \in {"ok", "copy"} =>
                LET last == LastOf(filePaths[i], {"ok", "copy"})
                IN  files[filePaths[i]] = Written(last, outcomes[last] = "ok")

\* C9, its case: two references name one path, the first download
\* succeeded, the copy of the second failed, and the file holds the
\* truncated second body.
LaterWriteWinsWitness ==
    /\ exit.code = 0
    /\ Len(assets) = 2
    /\ assets[1] = assets[2]
    /\ outcomes = <<"ok", "copy">>
    /\ filePaths[1] = filePaths[2]
    /\ files[filePaths[1]] = Written(2, FALSE)

\* C10: every file created or truncated lies inside the destination
\* directory, and every directory made is that directory or lies inside it
\* (the working directory, which exists before the run, apart).
InsideDestination ==
    /\ \A p \in DOMAIN files : Inside(p, DestDir(u))
    /\ \A d \in dirs : d \in {Dot, DestDir(u)} \/ Inside(d, DestDir(u))

====
